---- MODULE Spec2Model ----
(***************************************************************************)
(* The extraction pipeline of the inference service                       *)
(* (src/inference-service/src): pipeline(filename) of pipeline.py with    *)
(* the stages it calls (storage.py, face.py, facerembg.py, paper.py,      *)
(* ocr.py) and its Timer (timer.py).                                      *)
(*                                                                         *)
(* Several runs of pipeline() execute concurrently, one per request; they *)
(* share the local file system /tmp.  Each stage call is one step.  The   *)
(* capabilities the stages call (S3 client, face detector, rembg, OCR     *)
(* engine, language model) are black boxes: each call either raises or    *)
(* answers, chosen nondeterministically.                                   *)
(***************************************************************************)
EXTENDS Integers, Sequences, FiniteSets, TLC

\* ------------------------------------------------------------- universe

\* The concurrent requests.
Runs == {"r1", "r2"}

\* Job keys a request may name (ExtractRequest.filename).
Keys == {"a.jpg", "b.jpg"}

\* Values uuid.uuid4() can return.
UUIDs == {"u1", "u2"}

\* The four suffixes of pipeline.py:20-23.
Suffixes == {".jpg", "_headshot.jpg", "_headshot_rembg.png", "_paper.jpg"}

\* A local path /tmp/{stem}{suffix}.
Paths == (UUIDs \cup Keys) \X Suffixes

NoFile == [by |-> "nobody", data |-> "absent"]

\* What a stored object can hold: a decodable image, or bytes that are no
\* image.  (A file remove_background failed to finish holds "partial".)
Contents == {"image", "garbage"}

\* Characters of the texts handled by ocr.py: braces, a JSON member
\* ("key": value), a lower-case and an upper-case letter.
Chars == {"{", "}", "m", "a", "A"}

\* Longest OCR text and longest model generation explored.
MaxTextLen == 1
MaxGenLen == 3

RECURSIVE SeqsUpTo(_, _)
SeqsUpTo(S, n) ==
  IF n = 0 THEN {<<>>}
  ELSE LET shorter == SeqsUpTo(S, n - 1)
       IN  shorter \cup {Append(s, c) : s \in {t \in shorter : Len(t) = n - 1}, c \in S}

VARIABLES
  pc,               \* each run's position in pipeline()
  filename,         \* each run's argument
  id,               \* each run's uuid (pipeline.py:18)
  headshot_result,  \* pipeline.py:33
  facermbg_result,  \* pipeline.py:40
  paper_result,     \* pipeline.py:47
  extract_ocr_result, \* pipeline.py:54
  parse_ocr_result, \* pipeline.py:56 (its shape)
  steps,            \* timer.steps: the keys in insertion order
  fs,               \* the local file system: path -> file
  uploaded,         \* the artifacts each run has put into the bucket
  response,         \* what each run returns or raises to its caller
  calls,            \* history: the operations each run has invoked, in order
  created,          \* history: the local paths each run has created
  downloaded,       \* history: what the run's input file held
  raised,           \* history: the capability calls that raised in each run
  injected,         \* history: an environment fault happened in the run
  teardown_error,   \* history: the cleanup removed a missing file
  alias,            \* history: a run touched a file another run created
  po_pc, po_text, po_result, po_ret,  \* the stand-alone parse_ocr call
  hs_pc,            \* position in the stand-alone extract_headshot call
  hs_img,           \* img: its height and width (face.py:47, 65)
  hs_faces,         \* faces of the first detection (face.py:51)
  hs_refaces,       \* faces of the detection after the rotation (face.py:68)
  hs_best,          \* best_face
  hs_rotated,       \* the image was rotated
  hs_crop,          \* x1, y1, x2, y2 of face.py:77-80
  hs_ret,           \* what extract_headshot returns or raises
  sv_pc,            \* each retrieval request's position (app.py:66-78)
  sv_req,           \* each retrieval request: its endpoint and filename
  sv_fs,            \* the local files the retrievals serve from
  sv_resp,          \* what each retrieval request's client got
  up_pc,            \* position in upload_image_handler and the extract after it
  up_file,          \* the uploaded file: its name and content
  up_tmp,           \* tmp_path exists
  up_key,           \* final_filename
  up_resp,          \* what the upload's client got
  up_extract        \* what extract answered for the returned key

pvars == <<pc, filename, id, headshot_result, facermbg_result, paper_result,
           extract_ocr_result, parse_ocr_result, steps, fs, uploaded, response,
           calls, created, downloaded, raised, injected, teardown_error, alias>>
povars == <<po_pc, po_text, po_result, po_ret>>
hsvars == <<hs_pc, hs_img, hs_faces, hs_refaces, hs_best, hs_rotated, hs_crop, hs_ret>>
svvars == <<sv_pc, sv_req, sv_fs, sv_resp>>
upvars == <<up_pc, up_file, up_tmp, up_key, up_resp, up_extract>>
vars == <<pvars, povars, hsvars, svvars, upvars>>

\* ------------------------------------------------------------ timer.py

\* Timer.mark: steps[name] = elapsed.  steps is a dict: a new key is appended
\* to the insertion order, an existing key keeps its place.  The elapsed
\* seconds themselves (wall-clock readings) are not modelled.
mark(s, name) ==
  IF \E i \in 1..Len(s) : s[i] = name THEN s ELSE Append(s, name)

\* ------------------------------------------------------- pipeline.py paths

\* The paths named after the job key instead of the uuid.
tmp_path_by_key(r, suffix) == <<filename[r], suffix>>

\* /tmp/{id}{suffix}
tmp_path(r, suffix) == <<id[r], suffix>>

local_input(r) == tmp_path(r, ".jpg")
local_output(r) == tmp_path(r, "_headshot.jpg")
local_rembg_output(r) == tmp_path(r, "_headshot_rembg.png")
local_paper(r) == tmp_path(r, "_paper.jpg")

\* The run's four transient paths.
LocalPaths(r) == {local_input(r), local_output(r), local_rembg_output(r), local_paper(r)}

\* os.path.exists
path_exists(f) == fs[f] # NoFile

\* The list without the background-removed headshot.
cleanup_files_skip(r) == {local_input(r), local_output(r), local_paper(r)}

\* The list the finally block walks.
cleanup_files(r) == {local_input(r), local_output(r), local_rembg_output(r), local_paper(r)}

\* -------------------------------------------------------------- ocr.py

\* str.lower() on the modelled characters.
lower(t) == [i \in 1..Len(t) |-> IF t[i] = "A" THEN "a" ELSE t[i]]

\* The prompt of parse_ocr: fixed prose (it holds no brace) around the text.
prompt(text) == <<"a">> \o text \o <<"a">>

\* tokenizer.decode(outputs[0]) of a causal model: the prompt followed by the
\* generated text.
decode(text, gen) == prompt(text) \o gen

\* re.search(r"\{.*\}", result, re.S): the leftmost match starts at the first
\* "{" and, .* being greedy and matching newlines, ends at the last "}" after
\* it; no match when no "}" follows the first "{".  <<>> stands for None.
re_search(result) ==
  LET opens == {i \in 1..Len(result) : result[i] = "{"}
  IN  IF opens = {} THEN <<>>
      ELSE LET first == CHOOSE i \in opens : \A j \in opens : i <= j
               closes == {j \in 1..Len(result) : j > first /\ result[j] = "}"}
           IN  IF closes = {} THEN <<>>
               ELSE LET last == CHOOSE j \in closes : \A k \in closes : k <= j
                    IN  SubSeq(result, first, last)

\* Whether json.loads accepts the span: over the modelled characters the JSON
\* objects are "{}" and "{m}" (m a member).
is_json_object(s) == s \in {<<"{", "}">>, <<"{", "m", "}">>}

\* json.loads(match.group())
json_loads(s) ==
  IF is_json_object(s) THEN [kind |-> "object", value |-> s]
  ELSE [kind |-> "raise", value |-> <<"JSONDecodeError">>]

\* ocr.py:65-70: what parse_ocr does with the decoded output.
extract_json(result) ==
  LET match == re_search(result)
  IN  IF match # <<>> THEN json_loads(match) ELSE [kind |-> "raw", value |-> result]

\* OCR texts and model generations of the stand-alone parse_ocr call.
OcrTexts == SeqsUpTo(Chars, MaxTextLen)
Generations == SeqsUpTo(Chars, MaxGenLen)

\* The texts and generations a pipeline run draws from: no text (the engine
\* found no block) or a text; prose, a JSON object, a malformed object.
OcrSamples == {<<>>, <<"A">>}
LlmSamples == {<<"a">>, <<"{", "m", "}">>, <<"{", "a", "}">>}

\* ------------------------------------------------- pipeline.py: helpers

\* The file system with path p written by run r.
Written(f, r, p, data) == [f EXCEPT ![p] = [by |-> r, data |-> data]]

\* Run r touches (reads, writes or removes) a path of P that holds a file
\* another run created.
Foreign(r, P) == \E p \in P : fs[p] # NoFile /\ fs[p].by # r

Invoke(r, op) == calls' = [calls EXCEPT ![r] = Append(@, op)]
Goto(r, l) == pc' = [pc EXCEPT ![r] = l]
Mark(r, name) == steps' = [steps EXCEPT ![r] = mark(@, name)]
Touch(r, P) == alias' = (alias \/ Foreign(r, P))

\* A capability call of run r raised: what the run had done by then.
Fault(r, op, msg) ==
  [op |-> op, msg |-> msg, at |-> Len(calls[r]) + 1, uploads |-> uploaded[r]]

\* The failed call is tried again instead of aborting the run.
Raise_retry(r, op, msg, env) ==
  /\ raised' = [raised EXCEPT ![r] = @ \cup {Fault(r, op, msg)}]
  /\ injected' = [injected EXCEPT ![r] = @ \/ env]
  /\ UNCHANGED <<pc, response, steps>>

\* pipeline.py:70-71: an exception of stage op escapes the try block; the
\* except clause turns it into HTTPException(500, str(e)) and control goes to
\* the finally block.  env: the exception is an environment fault (storage,
\* detector, model).
Raise(r, op, msg, env) ==
  /\ Goto(r, "finally")
  /\ response' = [response EXCEPT ![r] =
                    [kind |-> "HTTPException", status_code |-> 500, detail |-> msg]]
  /\ raised' = [raised EXCEPT ![r] = @ \cup {Fault(r, op, msg)}]
  /\ injected' = [injected EXCEPT ![r] = @ \/ env]
  /\ UNCHANGED steps

NoRaise == UNCHANGED <<response, raised, injected>>

\* The upload without its guard.
after_stage_always(result, upload, next) == upload

\* pipeline.py:35, 42, 49: the upload of an artifact is guarded by its stage's
\* result.
after_stage(result, upload, next) == IF result = "True" THEN upload ELSE next

\* ------------------------------------------------- pipeline.py: actions

\* pipeline.py:16-25: the uuid, the four paths, the Timer.  uuid4 is taken to
\* return a value no other run holds.
Start(r) ==
  /\ pc[r] = "start"
  /\ \E u \in UUIDs \ {id[q] : q \in Runs} : id' = [id EXCEPT ![r] = u]
  /\ Goto(r, "download")
  /\ UNCHANGED <<filename, headshot_result, facermbg_result, paper_result,
                 extract_ocr_result, parse_ocr_result, steps, fs, uploaded,
                 response, calls, created, downloaded, raised, injected,
                 teardown_error, alias, povars, hsvars, svvars, upvars>>

\* pipeline.py:29-30, storage.py:18-20: s3.download_file either raises (the key
\* is absent, the transfer fails) leaving no file, or writes the object.
Download(r) ==
  /\ pc[r] = "download"
  /\ Invoke(r, "download_image")
  /\ \/ /\ Raise(r, "download_image", "download_image: ClientError", TRUE)
        /\ UNCHANGED <<fs, created, downloaded, alias>>
     \/ \E data \in Contents :
          /\ fs' = Written(fs, r, local_input(r), data)
          /\ created' = [created EXCEPT ![r] = @ \cup {local_input(r)}]
          /\ downloaded' = [downloaded EXCEPT ![r] = data]
          /\ Touch(r, {local_input(r)})
          /\ Mark(r, "download")
          /\ Goto(r, "headshot")
          /\ NoRaise
  /\ UNCHANGED <<filename, id, headshot_result, facermbg_result, paper_result,
                 extract_ocr_result, parse_ocr_result, uploaded,
                 teardown_error, povars, hsvars, svvars, upvars>>

\* pipeline.py:33-35, face.py:46-85: imread gives None for a missing or
\* undecodable file (return False); the detector raises, finds no face
\* (return False) or finds one (the crop is written, return True).
ExtractHeadshot(r) ==
  /\ pc[r] = "headshot"
  /\ Invoke(r, "extract_headshot")
  /\ Touch(r, {local_input(r), local_output(r)})
  /\ \/ /\ fs[local_input(r)].data = "image"
        /\ Raise(r, "extract_headshot", "extract_headshot: detector error", TRUE)
        /\ UNCHANGED <<headshot_result, fs, created>>
     \/ /\ headshot_result' = [headshot_result EXCEPT ![r] = "False"]
        /\ Mark(r, "headshot_inference")
        /\ Goto(r, after_stage("False", "upload_headshot", "rembg"))
        /\ NoRaise
        /\ UNCHANGED <<fs, created>>
     \/ /\ fs[local_input(r)].data = "image"
        /\ headshot_result' = [headshot_result EXCEPT ![r] = "True"]
        /\ fs' = Written(fs, r, local_output(r), "image")
        /\ created' = [created EXCEPT ![r] = @ \cup {local_output(r)}]
        /\ Mark(r, "headshot_inference")
        /\ Goto(r, after_stage("True", "upload_headshot", "rembg"))
        /\ NoRaise
  /\ UNCHANGED <<filename, id, facermbg_result, paper_result, extract_ocr_result,
                 parse_ocr_result, uploaded, downloaded, teardown_error, povars, hsvars, svvars, upvars>>

\* An upload of pipeline.py (36-37, 43-44, 50-51; storage.py:22-36):
\* s3.upload_file raises, or the artifact is stored and the checkpoint marked.
Upload(r, at, op, path, artifact, next) ==
  /\ pc[r] = at
  /\ Invoke(r, op)
  /\ Touch(r, {path})
  /\ \/ /\ Raise(r, op, "upload: ClientError", TRUE)
        /\ UNCHANGED uploaded
     \/ /\ path_exists(path)
        /\ uploaded' = [uploaded EXCEPT ![r] = @ \cup {artifact}]
        /\ Mark(r, op)
        /\ Goto(r, next)
        /\ NoRaise
  /\ UNCHANGED <<filename, id, headshot_result, facermbg_result, paper_result,
                 extract_ocr_result, parse_ocr_result, fs, created, downloaded,
                 teardown_error, povars, hsvars, svvars, upvars>>

UploadHeadshot(r) ==
  Upload(r, "upload_headshot", "upload_headshot", local_output(r), "headshot", "rembg")

UploadHeadshotRembg(r) ==
  Upload(r, "upload_headshot_rembg", "upload_headshot_rembg", local_rembg_output(r),
         "headshot_no_bg", "paper")

UploadPaper(r) ==
  Upload(r, "upload_paper", "upload_paper", local_paper(r), "paper", "ocr")

\* pipeline.py:40-42, facerembg.py:8-34: called whatever headshot_result is.
\* Every exception inside is caught and turned into False: the input cannot be
\* opened (no headshot was written), rembg's remove raises, or the write of
\* the output fails after open(output_path, 'wb') created the file.
RemoveBackground(r) ==
  /\ pc[r] = "rembg"
  /\ Invoke(r, "remove_background")
  /\ Touch(r, {local_output(r), local_rembg_output(r)})
  /\ \/ /\ ~path_exists(local_output(r))
        /\ facermbg_result' = [facermbg_result EXCEPT ![r] = "False"]
        /\ Goto(r, after_stage("False", "upload_headshot_rembg", "paper"))
        /\ UNCHANGED <<fs, created, raised, injected>>
     \/ /\ path_exists(local_output(r))
        /\ facermbg_result' = [facermbg_result EXCEPT ![r] = "False"]
        /\ Goto(r, after_stage("False", "upload_headshot_rembg", "paper"))
        /\ raised' = [raised EXCEPT ![r] = @ \cup {Fault(r, "remove_background", "Error removing background")}]
        /\ injected' = [injected EXCEPT ![r] = TRUE]
        /\ \/ UNCHANGED <<fs, created>>
           \/ /\ fs' = Written(fs, r, local_rembg_output(r), "partial")
              /\ created' = [created EXCEPT ![r] = @ \cup {local_rembg_output(r)}]
     \/ /\ path_exists(local_output(r))
        /\ facermbg_result' = [facermbg_result EXCEPT ![r] = "True"]
        /\ fs' = Written(fs, r, local_rembg_output(r), "image")
        /\ created' = [created EXCEPT ![r] = @ \cup {local_rembg_output(r)}]
        /\ Goto(r, after_stage("True", "upload_headshot_rembg", "paper"))
        /\ UNCHANGED <<raised, injected>>
  /\ Mark(r, "remove_background")
  /\ UNCHANGED <<filename, id, headshot_result, paper_result, extract_ocr_result,
                 parse_ocr_result, uploaded, response, downloaded,
                 teardown_error, povars, hsvars, svvars, upvars>>

\* pipeline.py:47-49, paper.py:116-126 and 9-74: imread gives None for a missing
\* or undecodable file and extract_paper_center_color(None) raises at
\* img.shape (paper.py:21); otherwise the detector raises, no contour is found
\* (return False), or the crop is written (return True).
ExtractPaper(r) ==
  /\ pc[r] = "paper"
  /\ Invoke(r, "extract_paper")
  /\ Touch(r, {local_input(r), local_paper(r)})
  /\ \/ /\ fs[local_input(r)].data # "image"
        /\ Raise(r, "extract_paper",
                 "'NoneType' object has no attribute 'shape'", FALSE)
        /\ UNCHANGED <<paper_result, fs, created>>
     \/ /\ fs[local_input(r)].data = "image"
        /\ Raise(r, "extract_paper", "extract_paper: detector error", TRUE)
        /\ UNCHANGED <<paper_result, fs, created>>
     \/ /\ fs[local_input(r)].data = "image"
        /\ paper_result' = [paper_result EXCEPT ![r] = "False"]
        /\ Mark(r, "paper_inference")
        /\ Goto(r, after_stage("False", "upload_paper", "ocr"))
        /\ NoRaise
        /\ UNCHANGED <<fs, created>>
     \/ /\ fs[local_input(r)].data = "image"
        /\ paper_result' = [paper_result EXCEPT ![r] = "True"]
        /\ fs' = Written(fs, r, local_paper(r), "image")
        /\ created' = [created EXCEPT ![r] = @ \cup {local_paper(r)}]
        /\ Mark(r, "paper_inference")
        /\ Goto(r, after_stage("True", "upload_paper", "ocr"))
        /\ NoRaise
  /\ UNCHANGED <<filename, id, headshot_result, facermbg_result, extract_ocr_result,
                 parse_ocr_result, uploaded, downloaded, teardown_error, povars, hsvars, svvars, upvars>>

\* pipeline.py:54-55, ocr.py:13-20: called whatever paper_result is.  The engine
\* raises or returns the text of its blocks; on a path that holds no file it
\* may do either (its answer there is not the repository's to decide) and the
\* exception is then no environment fault.
ExtractOcr(r) ==
  /\ pc[r] = "ocr"
  /\ Invoke(r, "extract_ocr")
  /\ Touch(r, {local_paper(r)})
  /\ \/ /\ path_exists(local_paper(r))
        /\ Raise(r, "extract_ocr", "extract_ocr: engine error", TRUE)
        /\ UNCHANGED extract_ocr_result
     \/ /\ ~path_exists(local_paper(r))
        /\ Raise(r, "extract_ocr", "extract_ocr: no such file", FALSE)
        /\ UNCHANGED extract_ocr_result
     \/ \E text \in OcrSamples :
          /\ ~path_exists(local_paper(r)) => text = <<>>
          /\ extract_ocr_result' = [extract_ocr_result EXCEPT ![r] = text]
          /\ Mark(r, "extract_ocr_inference")
          /\ Goto(r, "parse")
          /\ NoRaise
  /\ UNCHANGED <<filename, id, headshot_result, facermbg_result, paper_result,
                 parse_ocr_result, fs, uploaded, created, downloaded,
                 teardown_error, povars, hsvars, svvars, upvars>>

\* pipeline.py:56-57, ocr.py:34-70 on the lower-cased OCR text: the model raises,
\* or generates; the decoded output goes through extract_json, whose
\* JSONDecodeError escapes parse_ocr.
ParseOcr(r) ==
  /\ pc[r] = "parse"
  /\ Invoke(r, "parse_ocr")
  /\ \/ /\ Raise(r, "parse_ocr", "parse_ocr: model error", TRUE)
        /\ UNCHANGED parse_ocr_result
     \/ \E gen \in LlmSamples :
          LET out == extract_json(decode(lower(extract_ocr_result[r]), gen))
          IN  \/ /\ out.kind = "raise"
                 /\ Raise(r, "json.loads", "JSONDecodeError", FALSE)
                 /\ UNCHANGED parse_ocr_result
              \/ /\ out.kind # "raise"
                 /\ parse_ocr_result' = [parse_ocr_result EXCEPT ![r] = out.kind]
                 /\ Mark(r, "parse_ocr_inference")
                 /\ Goto(r, "return")
                 /\ NoRaise
  /\ UNCHANGED <<filename, id, headshot_result, facermbg_result, paper_result,
                 extract_ocr_result, fs, uploaded, created, downloaded,
                 teardown_error, alias, povars, hsvars, svvars, upvars>>

\* pipeline.py:59-68: the result object.
Return(r) ==
  /\ pc[r] = "return"
  /\ response' = [response EXCEPT ![r] =
       [kind |-> "result", status |-> "ok", filename |-> filename[r],
        headshot_result |-> headshot_result[r], paper_result |-> paper_result[r],
        extract_ocr_result |-> extract_ocr_result[r],
        parse_ocr_result |-> parse_ocr_result[r], timing |-> steps[r]]]
  /\ Goto(r, "finally")
  /\ UNCHANGED <<filename, id, headshot_result, facermbg_result, paper_result,
                 extract_ocr_result, parse_ocr_result, steps, fs, uploaded, calls,
                 created, downloaded, raised, injected, teardown_error, alias,
                 povars, hsvars, svvars, upvars>>

\* pipeline.py:73-77: os.remove of each of the paths that exists; os.remove of a
\* path that does not exist would raise.  Then the caller gets the response.
Finally(r) ==
  /\ pc[r] = "finally"
  /\ LET removed == {f \in cleanup_files(r) : path_exists(f)}
     IN  /\ fs' = [p \in Paths |-> IF p \in removed THEN NoFile ELSE fs[p]]
         /\ teardown_error' = [teardown_error EXCEPT ![r] =
                                 \E f \in removed : fs[f] = NoFile]
         /\ Touch(r, removed)
  /\ Goto(r, "done")
  /\ UNCHANGED <<filename, id, headshot_result, facermbg_result, paper_result,
                 extract_ocr_result, parse_ocr_result, steps, uploaded, response,
                 calls, created, downloaded, raised, injected, povars, hsvars, svvars, upvars>>

\* ------------------------------------------------------- ocr.py: parse_ocr

\* ocr.py:53-63: model.generate raises, or its output is decoded.
Generate ==
  /\ po_pc = "call"
  /\ \/ /\ po_pc' = "raised"
        /\ po_ret' = [kind |-> "raise", value |-> <<"model error">>]
        /\ UNCHANGED po_result
     \/ \E gen \in Generations :
          /\ po_result' = decode(po_text, gen)
          /\ po_pc' = "decoded"
          /\ UNCHANGED po_ret
  /\ UNCHANGED <<po_text, pvars, hsvars, svvars, upvars>>

\* ocr.py:65-70
ExtractJson ==
  /\ po_pc = "decoded"
  /\ po_ret' = extract_json(po_result)
  /\ po_pc' = IF po_ret'.kind = "raise" THEN "raised" ELSE "returned"
  /\ UNCHANGED <<po_text, po_result, pvars, hsvars, svvars, upvars>>

\* ------------------------------------------------ face.py: extract_headshot

\* Largest image height and width explored.
MaxDim == 3

\* Decoded images: their shape.  None is what imread gives for bytes that are
\* no image.
Images == [h : 1..MaxDim, w : 1..MaxDim]
None == [h |-> 0, w |-> 0]

\* The vector from the left to the right eye (kps[1] - kps[0]): level eyes,
\* tilts of 1.9 and 3.8 degrees, a face lying on its side (90 degrees), a face
\* upside down (180 degrees).
Eyes == {<<30, 0>>, <<30, 1>>, <<30, 2>>, <<0, 30>>, <<-30, 0>>}

Abs(n) == IF n < 0 THEN -n ELSE n

\* face.py:11-22 and 61: abs(angle) > 2 for angle = degrees(arctan2(dy, dx)).
\* For dx > 0 this is |dy| / dx > tan(2 degrees) = 0.034921 (scaled by 10^6);
\* for dx <= 0 the angle is at least 90 degrees, but for two equal points.
tilted(eyes) ==
  LET dx == eyes[1]
      dy == eyes[2]
  IN  IF dx > 0 THEN Abs(dy) * 1000000 > 34921 * dx
      ELSE ~(dx = 0 /\ dy = 0)

\* |cos| and |sin| of the angle, times 10000 (face.py:28-32), for the tilted
\* eye vectors of Eyes.
abs_cos(eyes) ==
  CASE eyes = <<30, 2>> -> 9978
    [] eyes = <<0, 30>> -> 0
    [] eyes = <<-30, 0>> -> 10000

abs_sin(eyes) ==
  CASE eyes = <<30, 2>> -> 665
    [] eyes = <<0, 30>> -> 10000
    [] eyes = <<-30, 0>> -> 0

\* face.py:25-43: the shape of the rotated image, new_w = int(h*sin + w*cos)
\* and new_h = int(h*cos + w*sin).
rotate_image(img, eyes) ==
  [h |-> (img.h * abs_cos(eyes) + img.w * abs_sin(eyes)) \div 10000,
   w |-> (img.h * abs_sin(eyes) + img.w * abs_cos(eyes)) \div 10000]

\* The integer boxes <<x1, y1, x2, y2>> a detector can report in an image: a
\* box has a width and a height and overlaps the image; it may stick out.
Boxes(img) ==
  {b \in (-1..MaxDim + 1) \X (-1..MaxDim + 1) \X (-1..MaxDim + 1) \X (-1..MaxDim + 1) :
     /\ b[1] < b[3] /\ b[2] < b[4]
     /\ b[1] < img.w /\ b[3] > 0
     /\ b[2] < img.h /\ b[4] > 0}

Face(b, e) == [bbox |-> b, eyes |-> e]

\* Three faces that fit every image: two of area 4 and one of area 3.
FaceA == Face(<<0, 0, 2, 2>>, <<30, 0>>)
FaceB == Face(<<0, 0, 1, 3>>, <<30, 2>>)
FaceC == Face(<<-1, 0, 1, 2>>, <<0, 30>>)

\* What app.get(img) can answer for the image read: nothing, any one face, or
\* several faces.
Detections(img) ==
  {<<>>} \cup {<<Face(b, e)>> : b \in Boxes(img), e \in Eyes}
         \cup {<<FaceB, FaceA>>, <<FaceA, FaceC>>, <<FaceC, FaceA>>, <<FaceB, FaceC, FaceA>>}

\* What app.get answers for the rotated image.
ReDetections ==
  {<<>>, <<FaceA>>, <<FaceB, FaceA>>, <<FaceA, FaceC>>, <<FaceC, FaceA>>}

\* The key of face.py:55 and 70.
area(f) == (f.bbox[3] - f.bbox[1]) * (f.bbox[4] - f.bbox[2])

\* max(faces, key=area): the first of the faces of largest area.
max_face(faces) ==
  LET best == CHOOSE i \in 1..Len(faces) :
                /\ \A j \in 1..Len(faces) : area(faces[j]) <= area(faces[i])
                /\ \A j \in 1..(i - 1) : area(faces[j]) < area(faces[i])
  IN  faces[best]

\* The padding rounded to the nearest integer (halves up).
pad_round(height) == (3 * height + 5) \div 10

\* face.py:75: int(0.30 * (y2 - y1)), the product truncated (the height of a
\* box is not negative).
pad(height) == (3 * height) \div 10

Max(a, b) == IF a >= b THEN a ELSE b
Min(a, b) == IF a <= b THEN a ELSE b

\* face.py:72-80: the crop bounds of box b in an image.
crop_bounds(b, img) ==
  LET p == pad(b[4] - b[2])
  IN  [x1 |-> Max(0, b[1] - p), y1 |-> Max(0, b[2] - p),
       x2 |-> Min(img.w, b[3] + p), y2 |-> Min(img.h, b[4] + p)]

\* img[y1:y2, x1:x2] holds no pixel.
empty_crop(c) == c.x1 >= c.x2 \/ c.y1 >= c.y2

NoCrop == [x1 |-> 0, y1 |-> 0, x2 |-> 0, y2 |-> 0]
NoFace == Face(<<0, 0, 0, 0>>, <<0, 0>>)

\* face.py:47-49
Imread ==
  /\ hs_pc = "imread"
  /\ IF hs_img = None
     THEN hs_pc' = "done" /\ hs_ret' = "False"
     ELSE hs_pc' = "detect" /\ UNCHANGED hs_ret
  /\ UNCHANGED <<hs_img, hs_faces, hs_refaces, hs_best, hs_rotated, hs_crop,
                 pvars, povars, svvars, upvars>>

\* face.py:51-61: the detection (it may raise), the largest face, its angle.
Detect ==
  /\ hs_pc = "detect"
  /\ \/ /\ hs_pc' = "done"
        /\ hs_ret' = "detector error"
        /\ UNCHANGED <<hs_faces, hs_best>>
     \/ \E faces \in Detections(hs_img) :
          /\ hs_faces' = faces
          /\ IF Len(faces) = 0
             THEN /\ hs_pc' = "done"
                  /\ hs_ret' = "False"
                  /\ UNCHANGED hs_best
             ELSE /\ hs_best' = max_face(faces)
                  /\ hs_pc' = IF tilted(hs_best'.eyes) THEN "rotate" ELSE "crop"
                  /\ UNCHANGED hs_ret
  /\ UNCHANGED <<hs_img, hs_refaces, hs_rotated, hs_crop, pvars, povars, svvars,
                 upvars>>

\* face.py:62-70: the rotation, the second detection (it may raise), the
\* largest face of it; best_face stays when no face is found.
Rotate ==
  /\ hs_pc = "rotate"
  /\ hs_img' = rotate_image(hs_img, hs_best.eyes)
  /\ hs_rotated' = TRUE
  /\ \/ /\ hs_pc' = "done"
        /\ hs_ret' = "detector error"
        /\ UNCHANGED <<hs_refaces, hs_best>>
     \/ \E faces \in ReDetections :
          /\ hs_refaces' = faces
          /\ hs_best' = IF Len(faces) > 0 THEN max_face(faces) ELSE hs_best
          /\ hs_pc' = "crop"
          /\ UNCHANGED hs_ret
  /\ UNCHANGED <<hs_faces, hs_crop, pvars, povars, svvars, upvars>>

\* face.py:72-85: the bounds, the crop, cv2.imwrite (it raises on an image
\* without pixels), return True.
Crop ==
  /\ hs_pc = "crop"
  /\ hs_crop' = crop_bounds(hs_best.bbox, hs_img)
  /\ hs_ret' = IF empty_crop(hs_crop') THEN "imwrite error" ELSE "True"
  /\ hs_pc' = "done"
  /\ UNCHANGED <<hs_img, hs_faces, hs_refaces, hs_best, hs_rotated, pvars, povars,
                 svvars, upvars>>

NoHeadshotCall ==
  /\ hs_pc = "idle"
  /\ hs_img = None
  /\ hs_faces = <<>>
  /\ hs_refaces = <<>>
  /\ hs_best = NoFace
  /\ hs_rotated = FALSE
  /\ hs_crop = NoCrop
  /\ hs_ret = "unset"

\* --------------------------------------- app.py: get_headshot, get_paper

\* The concurrent retrieval requests.
Requests == {"q1", "q2"}

Endpoints == {"headshot", "paper"}

\* /tmp/headshot_{filename} and /tmp/paper_{filename}
serve_path(req) == <<req.endpoint, req.filename>>

ServePaths == Endpoints \X Keys

\* app.py:68-69 and 75-76, storage.py:26-28 and 38-40: s3.download_file raises
\* (no file is written, the handler ends with an error), or the object is in
\* place at local_path, complete, replacing a file that was there.  Then the
\* deletion is scheduled and the FileResponse returned (app.py:70-71, 77-78).
SvDownload(q) ==
  /\ sv_pc[q] = "download"
  /\ \/ /\ sv_pc' = [sv_pc EXCEPT ![q] = "done"]
        /\ sv_resp' = [sv_resp EXCEPT ![q] = "download error"]
        /\ UNCHANGED sv_fs
     \/ /\ sv_fs' = [sv_fs EXCEPT ![serve_path(sv_req[q])] = "complete"]
        /\ sv_pc' = [sv_pc EXCEPT ![q] = "respond"]
        /\ UNCHANGED sv_resp
  /\ UNCHANGED <<sv_req, pvars, povars, hsvars, upvars>>

\* FileResponse, as the response starts: os.stat of the path; a missing file
\* is an error and the scheduled task is not run.
SvStat(q) ==
  /\ sv_pc[q] = "respond"
  /\ IF sv_fs[serve_path(sv_req[q])] = "absent"
     THEN /\ sv_pc' = [sv_pc EXCEPT ![q] = "done"]
          /\ sv_resp' = [sv_resp EXCEPT ![q] = "file does not exist"]
     ELSE /\ sv_pc' = [sv_pc EXCEPT ![q] = "open"]
          /\ UNCHANGED sv_resp
  /\ UNCHANGED <<sv_req, sv_fs, pvars, povars, hsvars, upvars>>

\* FileResponse: the file is opened after the headers went out; a missing file
\* breaks the response.  An open file is read to its end whatever happens to
\* its path.
SvOpen(q) ==
  /\ sv_pc[q] = "open"
  /\ IF sv_fs[serve_path(sv_req[q])] = "absent"
     THEN /\ sv_pc' = [sv_pc EXCEPT ![q] = "done"]
          /\ sv_resp' = [sv_resp EXCEPT ![q] = "file does not exist"]
     ELSE /\ sv_pc' = [sv_pc EXCEPT ![q] = "streaming"]
          /\ UNCHANGED sv_resp
  /\ UNCHANGED <<sv_req, sv_fs, pvars, povars, hsvars, upvars>>

\* FileResponse: the body has been sent; the background task is due.
SvSent(q) ==
  /\ sv_pc[q] = "streaming"
  /\ sv_pc' = [sv_pc EXCEPT ![q] = "task"]
  /\ sv_resp' = [sv_resp EXCEPT ![q] = "complete"]
  /\ UNCHANGED <<sv_req, sv_fs, pvars, povars, hsvars, upvars>>

\* app.py:59-64: delete_file(local_path)
delete_file(q) ==
  /\ sv_pc[q] = "task"
  /\ sv_fs' = [sv_fs EXCEPT ![serve_path(sv_req[q])] = "absent"]
  /\ sv_pc' = [sv_pc EXCEPT ![q] = "done"]
  /\ UNCHANGED <<sv_req, sv_resp, pvars, povars, hsvars, upvars>>

NoRetrieval ==
  /\ sv_pc = [q \in Requests |-> "idle"]
  /\ sv_req = [q \in Requests |-> [endpoint |-> "headshot", filename |-> "a.jpg"]]
  /\ sv_fs = [p \in ServePaths |-> "absent"]
  /\ sv_resp = [q \in Requests |-> "none"]

\* ---------------------------------- upload_image.py and app.py: extract

\* upload_image.py:10
ALLOWED_EXT == {<<".", "j", "p", "g">>, <<".", "j", "p", "e", "g">>,
                <<".", "p", "n", "g">>, <<".", "w", "e", "b", "p">>}

\* app.py:49: the suffixes extract accepts.
ExtractSuffixes == {<<".", "j", "p", "g">>, <<".", "p", "n", "g">>,
                    <<".", "j", "p", "e", "g">>}

\* The names a client uploads under: a stem (a letter, a name with a dot in
\* it, nothing) followed by an extension in either case, of a format the
\* upload knows or not, or by nothing.  No name holds a path separator.
Stems == {<<"p">>, <<"a", ".", "b">>, <<>>}
Extensions == {<<".", "j", "p", "g">>, <<".", "J", "P", "G">>,
               <<".", "j", "p", "e", "g">>, <<".", "P", "n", "g">>,
               <<".", "w", "e", "b", "p">>, <<".", "W", "E", "B", "P">>,
               <<".", "g", "i", "f">>, <<>>}
Filenames == {stem \o ext : stem \in Stems, ext \in Extensions}

UploadContents == {"c1", "c2"}

\* os.path.splitext(name)[1]: from the last dot on, when a character other
\* than a dot stands before it; else empty.
splitext(name) ==
  LET dots == {i \in 1..Len(name) : name[i] = "."}
  IN  IF dots = {} THEN <<>>
      ELSE LET d == CHOOSE i \in dots : \A j \in dots : j <= i
           IN  IF \E j \in 1..(d - 1) : name[j] # "."
               THEN SubSeq(name, d, Len(name))
               ELSE <<>>

\* str.lower() on the characters of the uploaded names.
lower_char(c) ==
  CASE c = "J" -> "j" [] c = "P" -> "p" [] c = "G" -> "g" [] c = "W" -> "w"
    [] c = "E" -> "e" [] c = "B" -> "b" [] OTHER -> c
ext_lower(t) == [i \in 1..Len(t) |-> lower_char(t[i])]

\* upload_image.py:12-17: the hex digest of the content; distinct contents
\* have distinct digests, and a digest holds no dot.
sha256(content) == IF content = "c1" THEN <<"0", "a">> ELSE <<"f", "3">>

\* str.endswith(suffix)
endswith(t, suffix) ==
  /\ Len(suffix) <= Len(t)
  /\ SubSeq(t, Len(t) - Len(suffix) + 1, Len(t)) = suffix

\* upload_image.py:20-34, called at 39.  An unsupported extension raises
\* ValueError before tmp_path is chosen; a write that fails leaves the file
\* behind with tmp_path unbound in the handler (line 59); both end as the 400
\* of line 56.
save_upload_to_tmp ==
  /\ up_pc = "save"
  /\ IF ext_lower(splitext(up_file.name)) \notin ALLOWED_EXT
     THEN /\ up_resp' = [status |-> 400, detail |-> "Unsupported file format"]
          /\ up_pc' = "done"
          /\ UNCHANGED up_tmp
     ELSE \/ /\ up_tmp' = TRUE
             /\ up_pc' = "hash"
             /\ UNCHANGED up_resp
          \/ /\ up_tmp' = TRUE
             /\ up_resp' = [status |-> 400, detail |-> "write error"]
             /\ up_pc' = "done"
  /\ UNCHANGED <<up_file, up_key, up_extract, pvars, povars, hsvars, svvars>>

\* upload_image.py:42-44
hash_file ==
  /\ up_pc = "hash"
  /\ up_key' = sha256(up_file.content) \o ext_lower(splitext(up_file.name))
  /\ up_pc' = "upload"
  /\ UNCHANGED <<up_file, up_tmp, up_resp, up_extract, pvars, povars, hsvars, svvars>>

\* upload_image.py:47-60, storage.py:14-16: the store takes the file and the
\* key is returned, or the store raises and the answer is 400; tmp_path is
\* removed either way.
upload_image ==
  /\ up_pc = "upload"
  /\ \/ /\ up_resp' = [status |-> 200, detail |-> "ok"]
        /\ up_pc' = "extract"
     \/ /\ up_resp' = [status |-> 400, detail |-> "store error"]
        /\ up_pc' = "done"
  /\ up_tmp' = FALSE
  /\ UNCHANGED <<up_file, up_key, up_extract, pvars, povars, hsvars, svvars>>

\* app.py:46-52, on the key a successful upload returned.
extract ==
  /\ up_pc = "extract"
  /\ up_extract' = IF \E suffix \in ExtractSuffixes : endswith(up_key, suffix)
                   THEN "pipeline"
                   ELSE "Invalid image format"
  /\ up_pc' = "done"
  /\ UNCHANGED <<up_file, up_tmp, up_key, up_resp, pvars, povars, hsvars, svvars>>

NoUpload ==
  /\ up_pc = "idle"
  /\ up_file = [name |-> <<>>, content |-> "c1"]
  /\ up_tmp = FALSE
  /\ up_key = <<>>
  /\ up_resp = [status |-> 0, detail |-> "none"]
  /\ up_extract = "none"

\* ------------------------------------------------------- specifications

InitPipeline ==
  /\ pc = [r \in Runs |-> "start"]
  /\ filename \in [Runs -> Keys]
  /\ id = [r \in Runs |-> "none"]
  /\ headshot_result = [r \in Runs |-> "unset"]
  /\ facermbg_result = [r \in Runs |-> "unset"]
  /\ paper_result = [r \in Runs |-> "unset"]
  /\ extract_ocr_result = [r \in Runs |-> <<>>]
  /\ parse_ocr_result = [r \in Runs |-> "unset"]
  /\ steps = [r \in Runs |-> <<>>]
  /\ fs = [p \in Paths |-> NoFile]
  /\ uploaded = [r \in Runs |-> {}]
  /\ response = [r \in Runs |-> [kind |-> "none"]]
  /\ calls = [r \in Runs |-> <<>>]
  /\ created = [r \in Runs |-> {}]
  /\ downloaded = [r \in Runs |-> "none"]
  /\ raised = [r \in Runs |-> {}]
  /\ injected = [r \in Runs |-> FALSE]
  /\ teardown_error = [r \in Runs |-> FALSE]
  /\ alias = FALSE

NoParseCall ==
  /\ po_pc = "idle"
  /\ po_text = <<>>
  /\ po_result = <<>>
  /\ po_ret = [kind |-> "none", value |-> <<>>]

Init == InitPipeline /\ NoParseCall /\ NoHeadshotCall /\ NoRetrieval /\ NoUpload

Next ==
  \E r \in Runs :
    \/ Start(r)
    \/ Download(r)
    \/ ExtractHeadshot(r)
    \/ UploadHeadshot(r)
    \/ RemoveBackground(r)
    \/ UploadHeadshotRembg(r)
    \/ ExtractPaper(r)
    \/ UploadPaper(r)
    \/ ExtractOcr(r)
    \/ ParseOcr(r)
    \/ Return(r)
    \/ Finally(r)

Spec == Init /\ [][Next]_vars

\* parse_ocr alone, on every text and every generation within the bounds; no
\* pipeline run is started.
InitParse ==
  /\ InitPipeline
  /\ filename = [r \in Runs |-> "a.jpg"]
  /\ po_pc = "call"
  /\ po_text \in OcrTexts
  /\ po_result = <<>>
  /\ po_ret = [kind |-> "none", value |-> <<>>]
  /\ NoHeadshotCall
  /\ NoRetrieval
  /\ NoUpload

NextParse == Generate \/ ExtractJson

SpecParse == InitParse /\ [][NextParse]_vars

\* extract_headshot alone, on every image shape and every detection within the
\* bounds; no pipeline run is started.
InitHeadshot ==
  /\ InitPipeline
  /\ filename = [r \in Runs |-> "a.jpg"]
  /\ NoParseCall
  /\ hs_pc = "imread"
  /\ hs_img \in Images \cup {None}
  /\ hs_faces = <<>>
  /\ hs_refaces = <<>>
  /\ hs_best = NoFace
  /\ hs_rotated = FALSE
  /\ hs_crop = NoCrop
  /\ hs_ret = "unset"
  /\ NoRetrieval
  /\ NoUpload

NextHeadshot == Imread \/ Detect \/ Rotate \/ Crop

SpecHeadshot == InitHeadshot /\ [][NextHeadshot]_vars

\* Two concurrent retrievals, of any endpoint and filename each; no pipeline
\* run is started.
InitRetrieve ==
  /\ InitPipeline
  /\ filename = [r \in Runs |-> "a.jpg"]
  /\ NoParseCall
  /\ NoHeadshotCall
  /\ NoUpload
  /\ sv_pc = [q \in Requests |-> "download"]
  /\ sv_req \in [Requests -> [endpoint : Endpoints, filename : Keys]]
  /\ sv_fs = [p \in ServePaths |-> "absent"]
  /\ sv_resp = [q \in Requests |-> "none"]

NextRetrieve ==
  \E q \in Requests :
    \/ SvDownload(q)
    \/ SvStat(q)
    \/ SvOpen(q)
    \/ SvSent(q)
    \/ delete_file(q)

SpecRetrieve == InitRetrieve /\ [][NextRetrieve]_vars

\* One upload of any name and content, then extract of the key it returned; no
\* pipeline run is started.
InitUpload ==
  /\ InitPipeline
  /\ filename = [r \in Runs |-> "a.jpg"]
  /\ NoParseCall
  /\ NoHeadshotCall
  /\ NoRetrieval
  /\ up_pc = "save"
  /\ up_file \in [name : Filenames, content : UploadContents]
  /\ up_tmp = FALSE
  /\ up_key = <<>>
  /\ up_resp = [status |-> 0, detail |-> "none"]
  /\ up_extract = "none"

NextUpload == save_upload_to_tmp \/ hash_file \/ upload_image \/ extract

SpecUpload == InitUpload /\ [][NextUpload]_vars

\* --------------------------------------------------------------- claims

Returned(r) == pc[r] = "done"
Failed(r) == response[r].kind = "HTTPException"
Succeeded(r) == response[r].kind = "result"
Called(r, op) == \E i \in 1..Len(calls[r]) : calls[r][i] = op
InLog(log, name) == \E i \in 1..Len(log) : log[i] = name

\* C1: when pipeline() returns, on every exit path, every transient local
\* file the run created is gone, and the cleanup raised no error for a path
\* that holds no file.
C1_TransientFilesAreRemoved ==
  \A r \in Runs :
    Returned(r) => /\ \A f \in created[r] : fs[f] = NoFile
                   /\ ~teardown_error[r]

\* C1 witness: a run that failed has returned after it had created its input,
\* its headshot and a partly written background-removed headshot that was
\* never uploaded.
C1_Witness ==
  \E r \in Runs :
    /\ Returned(r) /\ Failed(r)
    /\ {local_input(r), local_output(r), local_rembg_output(r)} \subseteq created[r]
    /\ "headshot_no_bg" \notin uploaded[r]

\* C2: in a run where paper extraction reports not-found, extract_ocr and
\* parse_ocr are never invoked.
C2_OcrSkippedWithoutPaper ==
  \A r \in Runs :
    paper_result[r] = "False" => ~Called(r, "extract_ocr") /\ ~Called(r, "parse_ocr")

\* C3: a run without any environment fault in which paper extraction found no
\* contour returns a result object with status ok, paper_result false and the
\* headshot stage's own outcome (its headshot uploaded when it was found).
C3_PaperMissDoesNotFailRun ==
  \A r \in Runs :
    (Returned(r) /\ paper_result[r] = "False" /\ ~injected[r]) =>
       /\ Succeeded(r)
       /\ response[r].status = "ok"
       /\ response[r].paper_result = "False"
       /\ response[r].headshot_result = headshot_result[r]
       /\ headshot_result[r] = "True" => "headshot" \in uploaded[r]

\* The run stopped at the call that raised.
Aborted(r, e) ==
  /\ Len(calls[r]) = e.at
  /\ uploaded[r] = e.uploads
  /\ pc[r] \in {"finally", "done"}
  /\ Failed(r)
  /\ response[r].detail = e.msg

\* No operation is invoked twice.
AtMostOnce(log) == \A i, j \in 1..Len(log) : log[i] = log[j] => i = j

\* C4 as stated: whenever a download, an upload, the OCR call or a model call
\* has raised in a run, the run was aborted there: nothing was invoked and
\* nothing uploaded after it, and the caller gets the one failure with the
\* message.
C4_EveryRaiseAborts ==
  \A r \in Runs : \A e \in raised[r] : Aborted(r, e)

\* C4 amended: every exception other than one caught inside remove_background
\* aborts the run at the call that raised (no later call, no later upload, no
\* second attempt, one failure carrying its message, the transient files gone
\* at return); an exception inside remove_background makes that stage report
\* False, nothing is uploaded for it, and the run goes on.
C4_EscapingRaiseAborts ==
  \A r \in Runs :
    /\ AtMostOnce(calls[r])
    /\ \A e \in raised[r] :
         IF e.op = "remove_background"
         THEN /\ facermbg_result[r] = "False"
              /\ "headshot_no_bg" \notin uploaded[r]
              /\ ~Called(r, "upload_headshot_rembg")
         ELSE /\ Aborted(r, e)
              /\ Returned(r) => \A f \in LocalPaths(r) : fs[f] = NoFile
    /\ Cardinality({e \in raised[r] : e.op # "remove_background"}) <= 1
    /\ Failed(r) => \E e \in raised[r] : e.op # "remove_background"

\* C4 witness: a run has returned whose paper upload raised after its headshot
\* had been uploaded.
C4_Witness ==
  \E r \in Runs :
    /\ Returned(r)
    /\ \E e \in raised[r] : e.op = "upload_paper"
    /\ "headshot" \in uploaded[r]

\* The timing log the caller of run r receives: the result object's, and none
\* with an HTTPException.
TimingReported(r) ==
  IF Succeeded(r) THEN response[r].timing ELSE <<>>

\* C5: whatever the outcome, the caller receives the checkpoints of the stages
\* that completed.
C5_TimingReportedOnEveryOutcome ==
  \A r \in Runs : Returned(r) => TimingReported(r) = steps[r]

\* C6: when the input is no decodable image, extract_headshot and extract_paper
\* report not-found and neither raises.
C6_DecodeFailureIsAMiss ==
  \A r \in Runs :
    downloaded[r] = "garbage" =>
      /\ Called(r, "extract_headshot") => headshot_result[r] = "False"
      /\ Called(r, "extract_paper") => paper_result[r] = "False"
      /\ \A e \in raised[r] : e.op \notin {"extract_headshot", "extract_paper"}

\* C7: two runs never share a transient path, whatever their job keys: every
\* file lies on a path of the run that created it, and no run has read,
\* overwritten or removed a file another run created.
C7_RunsNeverShareFiles ==
  /\ \A r1, r2 \in Runs :
       (r1 # r2 /\ pc[r1] # "start" /\ pc[r2] # "start") =>
          LocalPaths(r1) \cap LocalPaths(r2) = {}
  /\ \A p \in Paths :
       fs[p] # NoFile => p \in created[fs[p].by] /\ p \in LocalPaths(fs[p].by)
  /\ ~alias

\* C7 witness: two runs of the same job key; one has returned (its cleanup
\* ran) while the files the other created are all still there.
C7_Witness ==
  \E r1, r2 \in Runs :
    /\ r1 # r2 /\ filename[r1] = filename[r2]
    /\ Returned(r1) /\ created[r1] # {}
    /\ pc[r2] = "ocr" /\ Cardinality(created[r2]) = 4
    /\ \A f \in created[r2] : fs[f] # NoFile

\* The operations of a run in the order of pipeline.py.
StageOrder ==
  <<"download_image", "extract_headshot", "upload_headshot", "remove_background",
    "upload_headshot_rembg", "extract_paper", "upload_paper", "extract_ocr",
    "parse_ocr">>

Position(op) == CHOOSE i \in 1..Len(StageOrder) : StageOrder[i] = op

\* Each artifact with its stage's result, its upload and the next stage.
Artifacts ==
  {[artifact |-> "headshot", upload |-> "upload_headshot",
    next |-> "remove_background"],
   [artifact |-> "headshot_no_bg", upload |-> "upload_headshot_rembg",
    next |-> "extract_paper"],
   [artifact |-> "paper", upload |-> "upload_paper", next |-> "extract_ocr"]}

StageResult(r, artifact) ==
  CASE artifact = "headshot" -> headshot_result[r]
    [] artifact = "headshot_no_bg" -> facermbg_result[r]
    [] artifact = "paper" -> paper_result[r]

\* C8: the calls of a run follow the fixed order; an artifact's upload is
\* attempted only after its stage reported success, and when the next stage
\* starts the artifact has been uploaded if and only if its stage reported
\* success; no headshot_no_bg is uploaded when the headshot was not found.
C8_OrderedStagesAndGuardedUploads ==
  \A r \in Runs :
    /\ \A i \in 1..Len(calls[r]) : calls[r][i] \in {StageOrder[k] : k \in 1..Len(StageOrder)}
    /\ \A i, j \in 1..Len(calls[r]) :
         i < j => Position(calls[r][i]) < Position(calls[r][j])
    /\ \A a \in Artifacts :
         /\ Called(r, a.upload) => StageResult(r, a.artifact) = "True"
         /\ a.artifact \in uploaded[r] => Called(r, a.upload)
         /\ Called(r, a.next) =>
              (StageResult(r, a.artifact) = "True" <=> a.artifact \in uploaded[r])
         /\ Succeeded(r) =>
              (StageResult(r, a.artifact) = "True" <=> a.artifact \in uploaded[r])
    /\ headshot_result[r] = "False" => "headshot_no_bg" \notin uploaded[r]

\* C8 witness: a run returned a result with no face found and a paper found:
\* only the paper was uploaded, and every stage ran.
C8_Witness ==
  \E r \in Runs :
    /\ Returned(r) /\ Succeeded(r)
    /\ headshot_result[r] = "False" /\ paper_result[r] = "True"
    /\ uploaded[r] = {"paper"}
    /\ calls[r] = <<"download_image", "extract_headshot", "remove_background",
                    "extract_paper", "upload_paper", "extract_ocr", "parse_ocr">>

\* The checkpoints of the stages a run without face and document must skip.
SkippedCheckpoints ==
  {"upload_headshot", "remove_background", "upload_headshot_rembg", "upload_paper",
   "extract_ocr_inference", "parse_ocr_inference"}

\* C9: a run without environment fault that found neither face nor document
\* reports status ok, and its timing log has each key once and no checkpoint
\* of an upload, of background removal, of OCR or of normalization.
C9_TimingOnlyForAttemptedStages ==
  \A r \in Runs :
    (Returned(r) /\ headshot_result[r] = "False" /\ paper_result[r] = "False"
       /\ ~injected[r]) =>
       /\ Succeeded(r)
       /\ response[r].status = "ok"
       /\ AtMostOnce(response[r].timing)
       /\ \A name \in SkippedCheckpoints : ~InLog(response[r].timing, name)

\* C10: once the model has answered, parse_ocr does not raise: a decoded
\* output whose brace-delimited span is no JSON, or that has no such span,
\* comes back as the raw text.
C10_MalformedJsonDegrades ==
  /\ po_pc = "raised" => po_ret.value = <<"model error">>
  /\ (po_pc = "returned" /\ ~is_json_object(re_search(po_result))) =>
        po_ret = [kind |-> "raw", value |-> po_result]

\* extract_headshot has computed its crop bounds.
Cropped == hs_pc = "done" /\ hs_ret \in {"True", "imwrite error"}

Clamp(v, lo, hi) == IF v < lo THEN lo ELSE IF v > hi THEN hi ELSE v

\* The box padded by p and clamped, on both sides, to the image.
ClampedBox(b, p, img) ==
  [x1 |-> Clamp(b[1] - p, 0, img.w), y1 |-> Clamp(b[2] - p, 0, img.h),
   x2 |-> Clamp(b[3] + p, 0, img.w), y2 |-> Clamp(b[4] + p, 0, img.h)]

\* p is an integer nearest to 0.30 * height.
NearestPad(p, height) == Abs(10 * p - 3 * height) <= 5

\* p is 0.30 * height truncated.
TruncatedPad(p, height) == 10 * p <= 3 * height /\ 3 * height < 10 * (p + 1)

\* C11 as stated: the crop bounds are the box padded by 0.30 of its height
\* rounded to the nearest integer, each bound clamped on both sides.
C11_RoundedPadTwoSidedClamp ==
  Cropped =>
    \E p \in 0..(MaxDim + 2) :
      /\ NearestPad(p, hs_best.bbox[4] - hs_best.bbox[2])
      /\ hs_crop = ClampedBox(hs_best.bbox, p, hs_img)

\* C11 amended: the padding is 0.30 of the height truncated; the upper and left
\* bounds are clamped below at 0, the lower and right bounds above at the
\* image's height and width; for a box that overlaps the image these are the
\* bounds clamped on both sides.
C11_TruncatedPadClamp ==
  Cropped =>
    \E p \in 0..(MaxDim + 2) :
      LET b == hs_best.bbox
      IN  /\ TruncatedPad(p, b[4] - b[2])
          /\ hs_crop.x1 = (IF b[1] - p < 0 THEN 0 ELSE b[1] - p)
          /\ hs_crop.y1 = (IF b[2] - p < 0 THEN 0 ELSE b[2] - p)
          /\ hs_crop.x2 = (IF b[3] + p > hs_img.w THEN hs_img.w ELSE b[3] + p)
          /\ hs_crop.y2 = (IF b[4] + p > hs_img.h THEN hs_img.h ELSE b[4] + p)
          /\ (b[1] < hs_img.w /\ b[3] > 0 /\ b[2] < hs_img.h /\ b[4] > 0) =>
                hs_crop = ClampedBox(b, p, hs_img)

\* C11 witness: a crop of a box of height 5 (0.30 of it is 1.5) whose upper
\* bound was clamped to 0 and whose right bound, padded by 1, lies inside the
\* image.
C11_Witness ==
  /\ Cropped
  /\ hs_best.bbox[4] - hs_best.bbox[2] = 5
  /\ hs_best.bbox[2] - 1 < 0 /\ hs_crop.y1 = 0
  /\ hs_crop.x2 = hs_best.bbox[3] + 1 /\ hs_crop.x2 < hs_img.w

\* f is the first of the faces of largest area.
Largest(faces, f) ==
  \E i \in 1..Len(faces) :
    /\ faces[i] = f
    /\ \A j \in 1..Len(faces) : area(faces[j]) <= area(f)
    /\ \A j \in 1..(i - 1) : area(faces[j]) < area(f)

\* C12: the crop is decided by the eye angle of the largest face detected: up
\* to 2 degrees, no rotation, and the crop is that face's padded, clamped box;
\* above, the image is rotated and the crop is that of the largest face of the
\* second detection, or, when it finds none, of the face found before the
\* rotation; in each case the stage returns True.
C12_CropFollowsLargestFaceAngle ==
  (hs_pc = "done" /\ hs_faces # <<>> /\ hs_ret # "detector error") =>
    \E f \in {hs_faces[i] : i \in 1..Len(hs_faces)} :
      /\ Largest(hs_faces, f)
      /\ hs_ret = "True"
      /\ hs_rotated = tilted(f.eyes)
      /\ IF ~tilted(f.eyes) \/ hs_refaces = <<>>
         THEN hs_crop = crop_bounds(f.bbox, hs_img)
         ELSE \E g \in {hs_refaces[i] : i \in 1..Len(hs_refaces)} :
                /\ Largest(hs_refaces, g)
                /\ hs_crop = crop_bounds(g.bbox, hs_img)

\* q has fetched its file and its response is not sent yet.
Serving(q) == sv_pc[q] \in {"respond", "open", "streaming"}

\* C13: while a retrieval has fetched its local file and its response is
\* not sent yet, the file is at its path and complete, whatever the other
\* retrieval and the scheduled deletions do; so no retrieval that fetched its
\* file fails for a missing file.
C13_ServedFileOutlivesResponse ==
  \A q \in Requests :
    /\ Serving(q) => sv_fs[serve_path(sv_req[q])] = "complete"
    /\ sv_resp[q] # "file does not exist"

\* The key is the digest followed by the lower-cased extension of the name.
KeyOf(file) == sha256(file.content) \o ext_lower(splitext(file.name))

\* C14: the key a successful upload returned, a digest and the lower-cased
\* extension of the uploaded name, is accepted by extract: once extract has
\* answered for it, the answer is the pipeline's and not "Invalid image
\* format".
C14_UploadedKeyIsAcceptedByExtract ==
  (up_resp.status = 200 /\ up_pc = "done") =>
    /\ up_key = KeyOf(up_file)
    /\ up_extract = "pipeline"


====
